---- MODULE Spec2Model ----
(***************************************************************************)
(* typedcsv: TypedCSVReader / TypedCSVWriter.                              *)
(*                                                                         *)
(* A cell text is a sequence of one-character strings, so that splitting,  *)
(* scanning and joining are computed character by character.  A record     *)
(* type T is a sequence of struct-field descriptors (the reflect.StructField*)
(* data the code looks at); a record is a sequence of field values, one    *)
(* per struct field, in declaration order.                                 *)
(*                                                                         *)
(* The csv.Reader / csv.Writer collaborators are modelled as a lossless    *)
(* transport of rows (quoting is theirs), with the two behaviours the code *)
(* depends on: FieldsPerRecord checking on Read and buffered writes with a *)
(* sticky error.                                                           *)
(***************************************************************************)
EXTENDS Integers, Sequences, FiniteSets, TLC

\* ---------------------------------------------------------------- bounds
MaxLen == 2       \* longest generated cell text / string value
MaxRows == 2      \* most data rows of a generated multi-row input
MaxElems == 2     \* longest generated list value
MaxWrites == 2    \* most records of a generated multi-record workload

\* ------------------------------------------------------------------ text
Alphabet == {"a", "1", " ", ";"}

TextsUpTo(n) == UNION {[1..k -> Alphabet] : k \in 0..n}

RECURSIVE Concat(_)
\* the concatenation of a sequence of texts
Concat(ts) == IF ts = <<>> THEN <<>> ELSE Head(ts) \o Concat(Tail(ts))

HasPrefix(s, p) == Len(p) <= Len(s) /\ SubSeq(s, 1, Len(p)) = p

DecimalDigits == <<"0", "1", "2", "3", "4", "5", "6", "7", "8", "9">>
HexDigits == DecimalDigits \o <<"a", "b", "c", "d", "e", "f">>

RECURSIVE FormatBase(_, _)
\* strconv's rendering of a natural number in base b (2..16), no padding
FormatBase(n, b) ==
    IF n < b THEN <<HexDigits[n + 1]>>
    ELSE FormatBase(n \div b, b) \o <<HexDigits[(n % b) + 1]>>

Itoa(n) == FormatBase(n, 10)

\* value of a digit character in bases up to 16; -1 when it is none
DigitVal(c) ==
    IF \E i \in 1..16 : HexDigits[i] = c
    THEN (CHOOSE i \in 1..16 : HexDigits[i] = c) - 1
    ELSE IF c \in {"A", "B", "C", "D", "E", "F"}
         THEN CASE c = "A" -> 10 [] c = "B" -> 11 [] c = "C" -> 12
                [] c = "D" -> 13 [] c = "E" -> 14 [] c = "F" -> 15
         ELSE -1

IsDigitOf(c, base) == DigitVal(c) >= 0 /\ DigitVal(c) < base

RECURSIVE DigitsValue(_, _, _)
\* the number the digit text s denotes in the base, after the prefix acc
DigitsValue(s, base, acc) ==
    IF s = <<>> THEN acc
    ELSE DigitsValue(Tail(s), base, acc * base + DigitVal(Head(s)))

RECURSIVE TakeWhileDigit(_, _)
TakeWhileDigit(s, base) ==
    IF s # <<>> /\ IsDigitOf(Head(s), base)
    THEN <<Head(s)>> \o TakeWhileDigit(Tail(s), base)
    ELSE <<>>

\* --------------------------------------------------- struct field types
\* A struct field as reflect shows it: the csv tag value (the empty text when
\* there is none), whether the field is exported, its type and its tags.  A
\* tag is <<>> when the struct tag has no such key and <<v>> when it has
\* (reflect's StructTag.Lookup).  kind is the kind of the field's type after
\* one pointer is taken off (ptr says whether there was one); elem is the
\* element kind of a slice.
NoTag == <<>>
Tag(v) == <<v>>
\* StructTag.Lookup's ok
TagLookup(tag) == tag # NoTag
\* StructTag.Get of a tag whose value is a text (null, separator, csv)
TagGetText(tag) == IF tag # NoTag THEN tag[1] ELSE <<>>
\* StructTag.Get of a tag whose value is modelled as an atom (format,
\* time_format, time_location)
TagGet(tag) == IF tag # NoTag THEN tag[1] ELSE ""

Field(name, kind) ==
    [csv |-> name, exported |-> TRUE, ptr |-> FALSE, kind |-> kind, elem |-> "none",
     null |-> NoTag, format |-> NoTag, time_format |-> NoTag,
     time_location |-> NoTag, separator |-> NoTag]

SliceField(name, elem) == [Field(name, "slice") EXCEPT !.elem = elem]

\* the zero time.Time, and a time.Time as an instant (hours since the zero
\* time) with the UTC offset (hours) of its location
Time(unix, off) == [unix |-> unix, off |-> off]
ZeroTime == Time(0, 0)

\* reflect.Zero of a type of the given kind: strings and slices are texts and
\* sequences, a nil map is the empty sequence of entries
ZeroOfKind(kind) ==
    CASE kind = "string" -> <<>>
      [] kind = "uint8" -> 0
      [] kind = "status" -> 0
      [] kind = "bool" -> FALSE
      [] kind = "time" -> ZeroTime
      [] kind = "customtime" -> ZeroTime
      [] kind = "map" -> <<>>
      [] kind = "slice" -> <<>>

\* a pointer value: <<>> is nil, <<v>> points to v
Nil == <<>>
PtrTo(v) == <<v>>

\* the zero value of a struct field
ZeroOf(f) == IF f.ptr THEN Nil ELSE ZeroOfKind(f.kind)

\* ------------------------------------------------------- fmt.Sscanf("%v")
\* unicode.IsSpace as fmt's isSpace sees the characters of the model
IsSpace(c) == c \in {" ", "\t", "\r", "\n"}

NoErr == "nil"
EOF == "EOF"
ErrUnexpectedNewline == "unexpected newline"
ErrExpectedInteger == "expected integer"
ErrIntegerOverflow == "unsigned integer overflow on token"
ErrParseUintSyntax == "strconv.ParseUint: invalid syntax"
ErrParseUintRange == "strconv.ParseUint: value out of range"
ErrBool == "syntax error scanning boolean"
ErrCantScan == "can't scan type"

RECURSIVE SkipSpace(_)
\* ss.SkipSpace with nlIsSpace false (Sscanf): the input left, or the error
SkipSpace(s) ==
    IF s = <<>> THEN [rest |-> s, err |-> NoErr]
    ELSE IF Head(s) = "\r" /\ Len(s) >= 2 /\ s[2] = "\n" THEN SkipSpace(Tail(s))
    ELSE IF Head(s) = "\n" THEN [rest |-> Tail(s), err |-> ErrUnexpectedNewline]
    ELSE IF IsSpace(Head(s)) THEN SkipSpace(Tail(s))
    ELSE [rest |-> s, err |-> NoErr]

RECURSIVE Token(_)
\* ss.token(true, notSpace) on input with no leading space: the longest
\* prefix without a space character
Token(s) ==
    IF s = <<>> \/ IsSpace(Head(s)) THEN <<>> ELSE <<Head(s)>> \o Token(Tail(s))

Scanned(v) == [err |-> NoErr, val |-> v]
ScanFailed(e, zero) == [err |-> e, val |-> zero]

\* ss.convertString('v'): s has no leading space
ConvertString(s) ==
    IF s = <<>> THEN ScanFailed(EOF, <<>>) ELSE Scanned(Token(s))

\* the range checks that end ss.scanUint: strconv.ParseUint's 64 bits
\* (tokens of the model stay below ten digits), then the bitSize of the target
UintInRange(tok, n, bits) ==
    IF Len(tok) > 9 THEN ScanFailed(ErrParseUintRange, 0)
    ELSE IF n >= 2 ^ bits THEN ScanFailed(ErrIntegerOverflow, 0)
    ELSE Scanned(n)

\* ss.scanBasePrefix followed by ss.scanNumber and strconv.ParseUint(tok, 0, 64)
\* for input that starts with "0"; digit separators ("_") are not modelled
ScanZeroPrefixed(s, bits) ==
    LET r == Tail(s)
        base == IF r = <<>> THEN 8
                ELSE CASE Head(r) \in {"b", "B"} -> 2
                       [] Head(r) \in {"o", "O"} -> 8
                       [] Head(r) \in {"x", "X"} -> 16
                       [] OTHER -> 8
        prefixed == r # <<>> /\ Head(r) \in {"b", "B", "o", "O", "x", "X"}
        body == TakeWhileDigit(IF prefixed THEN Tail(r) ELSE r, base)
    IN IF prefixed /\ body = <<>> THEN ScanFailed(ErrParseUintSyntax, 0)
       ELSE UintInRange(body, DigitsValue(body, base, 0), bits)

\* ss.scanUint('v', bits): s has no leading space
ScanUint(s, bits) ==
    IF s = <<>> THEN ScanFailed(EOF, 0)
    ELSE IF Head(s) = "0" THEN ScanZeroPrefixed(s, bits)
    ELSE IF ~IsDigitOf(Head(s), 10) THEN ScanFailed(ErrExpectedInteger, 0)
    ELSE LET tok == TakeWhileDigit(s, 10)
         IN UintInRange(tok, DigitsValue(tok, 10, 0), bits)

\* ss.accept applied to the characters of a word in turn, as scanBool does:
\* TRUE when the first character is not there (nothing follows), or when all
\* are; FALSE when the word breaks off after its first character
AcceptWord(s, word) ==
    LET at(i) == i <= Len(s) /\ s[i] \in word[i]
    IN ~at(1) \/ \A i \in 2..Len(word) : at(i)

\* ss.scanBool: s has no leading space.  A first character that starts no
\* boolean is FALSE without an error.
ScanBool(s) ==
    IF s = <<>> THEN ScanFailed(EOF, FALSE)
    ELSE CASE Head(s) = "0" -> Scanned(FALSE)
           [] Head(s) = "1" -> Scanned(TRUE)
           [] Head(s) \in {"t", "T"} ->
                IF AcceptWord(Tail(s), <<{"r", "R"}, {"u", "U"}, {"e", "E"}>>)
                THEN Scanned(TRUE) ELSE ScanFailed(ErrBool, FALSE)
           [] Head(s) \in {"f", "F"} ->
                IF AcceptWord(Tail(s), <<{"a", "A"}, {"l", "L"}, {"s", "S"}, {"e", "E"}>>)
                THEN Scanned(FALSE) ELSE ScanFailed(ErrBool, FALSE)
           [] OTHER -> Scanned(FALSE)

\* ss.scanOne('v', ptr) for a pointer to a value of the kind, sk being what
\* the SkipSpace before it left: the error (NoErr when there is none) and the
\* value stored through the pointer.  Only (renamed) []byte slices can be
\* scanned, and the model has no byte values: a scanned []uint8 is the
\* scanned token's characters.
ScanOne(sk, kind, elem) ==
    IF sk.err # NoErr THEN ScanFailed(sk.err, ZeroOfKind(kind))
    ELSE CASE kind = "string" -> ConvertString(sk.rest)
           [] kind \in {"uint8", "status"} -> ScanUint(sk.rest, 8)
           [] kind = "bool" -> ScanBool(sk.rest)
           [] kind = "slice" /\ elem = "uint8" -> ConvertString(sk.rest)
           [] OTHER -> ScanFailed(ErrCantScan, ZeroOfKind(kind))

\* fmt.Sscanf(text, "%v", ptr): doScanf skips space before every verb but %c
Sscanf(text, kind, elem) == ScanOne(SkipSpace(text), kind, elem)

\* ------------------------------------------------------------ package time
\* time.Time values are instants counted in hours, with the offset of their
\* location.  A layout without a zone ("2006-01-02 15:04:05") renders the wall
\* clock reading, the instant plus the offset, in decimal; RFC 3339, the
\* layout of Time.MarshalText, renders the wall clock and then "Z" or "+" and
\* the offset.  Both parsers take the whole text or fail.
LayoutCivil == "2006-01-02 15:04:05"
ErrUnknownTimeZone == "unknown time zone"
ErrParsingTime == "parsing time: cannot parse"

\* time.LoadLocation: the offset of the named zone, or the error
LoadLocation(name) ==
    CASE name = "Asia/Tokyo" -> [err |-> NoErr, off |-> 9]
      [] name \in {"UTC", ""} -> [err |-> NoErr, off |-> 0]
      [] OTHER -> [err |-> ErrUnknownTimeZone, off |-> 0]

\* Time.In
TimeIn(t, off) == Time(t.unix, off)

IsNumber(s) == s # <<>> /\ Len(s) <= 9 /\ \A i \in 1..Len(s) : IsDigitOf(s[i], 10)

\* Time.Format; the empty layout renders nothing
TimeFormat(layout, t) ==
    IF layout = "" THEN <<>> ELSE Itoa(t.unix + t.off)

Parsed(t) == [err |-> NoErr, val |-> t]
ParseFailed(e) == [err |-> e, val |-> ZeroTime]

\* time.ParseInLocation(layout, text, loc), loc given by its offset;
\* time.Parse is ParseInLocation with UTC
TimeParseInLocation(layout, text, off) ==
    IF layout = "" THEN (IF text = <<>> THEN Parsed(ZeroTime) ELSE ParseFailed(ErrParsingTime))
    ELSE IF IsNumber(text) THEN Parsed(Time(DigitsValue(text, 10, 0) - off, off))
    ELSE ParseFailed(ErrParsingTime)

TimeParse(layout, text) == TimeParseInLocation(layout, text, 0)

\* Time.MarshalText (RFC 3339); it has no error for the times of the model
TimeMarshalText(t) ==
    Itoa(t.unix + t.off) \o (IF t.off = 0 THEN <<"Z">> ELSE <<"+">> \o Itoa(t.off))

\* Time.UnmarshalText (RFC 3339)
TimeUnmarshalText(text) ==
    LET wall == TakeWhileDigit(text, 10)
        rest == SubSeq(text, Len(wall) + 1, Len(text))
    IN IF ~IsNumber(wall) \/ rest = <<>> THEN ParseFailed(ErrParsingTime)
       ELSE IF rest = <<"Z">> THEN Parsed(Time(DigitsValue(wall, 10, 0), 0))
       ELSE IF Head(rest) = "+" /\ IsNumber(Tail(rest))
            THEN LET off == DigitsValue(Tail(rest), 10, 0)
                 IN Parsed(Time(DigitsValue(wall, 10, 0) - off, off))
       ELSE ParseFailed(ErrParsingTime)

\* ------------------------------------------- a type with text hooks
\* PersonStatus, the repository's example of encoding.TextMarshaler and
\* encoding.TextUnmarshaler
TextUnknown == <<"u", "n", "k", "n", "o", "w", "n">>
TextActive == <<"a", "c", "t", "i", "v", "e">>
TextInactive == <<"i", "n", "a", "c", "t", "i", "v", "e">>
ErrUnknownStatus == "unknown status"

PersonStatusMarshalText(status) ==
    CASE status = 0 -> [err |-> NoErr, text |-> TextUnknown]
      [] status = 1 -> [err |-> NoErr, text |-> TextActive]
      [] status = 2 -> [err |-> NoErr, text |-> TextInactive]
      [] OTHER -> [err |-> ErrUnknownStatus, text |-> <<>>]

\* the error and the value *status holds afterwards (it starts at old)
PersonStatusUnmarshalText(old, text) ==
    CASE text = TextUnknown -> [err |-> NoErr, val |-> 0]
      [] text = TextActive -> [err |-> NoErr, val |-> 1]
      [] text = TextInactive -> [err |-> NoErr, val |-> 2]
      [] OTHER -> [err |-> ErrUnknownStatus, val |-> old]

\* reflect.Type.ConvertibleTo(timeType) for the types of the model
ConvertibleToTime(kind) == kind \in {"time", "customtime"}
\* reflect.Type.Implements(textMarshalerType) of the type, and
\* Implements(textUnmarshalerType) of the pointer to it
ImplementsTextMarshaler(kind) == kind \in {"status", "time"}
ImplementsTextUnmarshaler(kind) == kind \in {"status", "time"}

\* MarshalText of a value of a kind that implements it
MarshalText(kind, v) ==
    IF kind = "status" THEN PersonStatusMarshalText(v)
    ELSE [err |-> NoErr, text |-> TimeMarshalText(v)]

\* UnmarshalText into a zero value of a kind that implements it
UnmarshalText(kind, text) ==
    IF kind = "status" THEN PersonStatusUnmarshalText(0, text)
    ELSE TimeUnmarshalText(text)

\* ----------------------------------------------------------- fmt.Sprintf
RECURSIVE Join(_, _)
\* the texts joined with sep between them
Join(ts, sep) ==
    IF ts = <<>> THEN <<>>
    ELSE IF Len(ts) = 1 THEN ts[1]
    ELSE ts[1] \o sep \o Join(Tail(ts), sep)

PadLeft(s, c, width) == [i \in 1..(IF Len(s) < width THEN width - Len(s) ELSE 0) |-> c] \o s

RECURSIVE Sprintf(_, _, _, _)
\* fmt.Sprintf(format, v) for the verbs the record types of the model use, v
\* a value of the kind (elem: the element kind of a slice).  A type's
\* MarshalText is nothing to fmt: a PersonStatus prints as the uint8 it is, a
\* CustomTime as the struct it is.
Sprintf(format, v, kind, elem) ==
    CASE format = "%02x" /\ kind \in {"uint8", "status"} -> PadLeft(FormatBase(v, 16), "0", 2)
      [] format = "%d" /\ kind \in {"uint8", "status"} -> Itoa(v)
      [] format = "%v" /\ kind \in {"uint8", "status"} -> Itoa(v)
      [] format \in {"%v", "%s"} /\ kind = "string" -> v
      [] format = "%v" /\ kind = "bool" ->
            IF v THEN <<"t", "r", "u", "e">> ELSE <<"f", "a", "l", "s", "e">>
      [] format = "%v" /\ kind = "map" -> <<"m", "a", "p", "[", "]">>
      [] format = "%v" /\ kind = "customtime" ->
            <<"{">> \o Itoa(v.unix) \o <<" ">> \o Itoa(v.off) \o <<"}">>
      [] format = "%v" /\ kind = "slice" ->
            <<"[">> \o Join([i \in 1..Len(v) |-> Sprintf("%v", v[i], elem, "none")], <<" ">>)
                \o <<"]">>

\* --------------------------------------------------------- strings.Split
RECURSIVE SplitOn(_, _, _)
\* the pieces of s between the occurrences of the non-empty sep, cur being
\* the piece under way
SplitOn(s, sep, cur) ==
    IF s = <<>> THEN <<cur>>
    ELSE IF HasPrefix(s, sep)
         THEN <<cur>> \o SplitOn(SubSeq(s, Len(sep) + 1, Len(s)), sep, <<>>)
         ELSE SplitOn(Tail(s), sep, cur \o <<Head(s)>>)

\* strings.Split: with the empty separator, one piece per character
Split(s, sep) ==
    IF sep = <<>> THEN [i \in 1..Len(s) |-> <<s[i]>>] ELSE SplitOn(s, sep, <<>>)

\* ---------------------------------------------------------------- errors
\* An error value: its type, and for the two field errors the Field and the
\* NestedError (the cause, one of the error atoms above).
ErrorValue(type, field, nested) == [type |-> type, Field |-> field, NestedError |-> nested]
NilError == ErrorValue("nil", <<>>, NoErr)
ErrHeaderNotRead == ErrorValue("ErrHeaderNotRead", <<>>, NoErr)
IoEOF == ErrorValue("io.EOF", <<>>, NoErr)
ErrFieldCount == ErrorValue("csv.ErrFieldCount", <<>>, NoErr)
ErrWrite == ErrorValue("write error", <<>>, NoErr)
FieldParseError(field, nested) == ErrorValue("FieldParseError", field, nested)
\* a faulty FieldFormatError that loses its NestedError
FieldFormatErrorWithoutCause(field, nested) == ErrorValue("FieldFormatError", field, NoErr)
FieldFormatError(field, nested) == ErrorValue("FieldFormatError", field, nested)
\* a run-time panic (index out of range) leaves the call without a result
Panic == ErrorValue("panic", <<>>, "index out of range")

Unwrap(e) == e.NestedError

\* ------------------------------------------------------------------ tags
\* a faulty isValidCSVField that takes unexported fields too
hasCSVTag(field) == field.csv # <<>>
isValidCSVField(field) == field.exported /\ field.csv # <<>>

\* reflect.Value.Kind of a struct field, taken before the pointer is followed
KindOf(field) == IF field.ptr THEN "ptr" ELSE field.kind

\* the eligible fields of a record type, in declaration order
EligibleFields(T) == SelectSeq(T, isValidCSVField)

\* ------------------------------------------------- WriteRecord, one field
Formatted(text) == [err |-> NoErr, text |-> text]
FormatFailed(e) == [err |-> e, text |-> <<>>]

\* the Time branch of WriteRecord: v is the time value
FormatTime(field, v) ==
    IF TagLookup(field.time_location)
    THEN LET location == LoadLocation(TagGet(field.time_location))
         IN IF location.err # NoErr THEN FormatFailed(location.err)
            ELSE Formatted(TimeFormat(TagGet(field.time_format), TimeIn(v, location.off)))
    ELSE Formatted(TimeFormat(TagGet(field.time_format), v))

\* the TextMarshaler branch of WriteRecord
FormatMarshaler(field, v) ==
    LET m == MarshalText(field.kind, v)
    IN IF m.err # NoErr THEN FormatFailed(m.err) ELSE Formatted(m.text)

\* the Slice branch of WriteRecord
FormatSlice(field, v) ==
    LET separator == TagGetText(field.separator)
        format == IF TagLookup(field.format) THEN TagGet(field.format) ELSE "%v"
    IN Formatted(Join([i \in 1..Len(v) |-> Sprintf(format, v[i], field.elem, "none")],
                      separator))

\* a faulty loop body that looks at the format tag before the TextMarshaler
FormatFieldFormatFirst(field, fieldValue) ==
    LET fieldKind == IF field.ptr THEN "ptr" ELSE field.kind
    IN IF fieldKind = "ptr" /\ fieldValue = Nil
       THEN Formatted(TagGetText(field.null))
       ELSE LET v == IF fieldKind = "ptr" THEN fieldValue[1] ELSE fieldValue
            IN IF ConvertibleToTime(field.kind) /\ TagLookup(field.time_format)
               THEN FormatTime(field, v)
               ELSE IF fieldKind = "slice" THEN FormatSlice(field, v)
               ELSE IF TagLookup(field.format)
                    THEN Formatted(Sprintf(TagGet(field.format), v, field.kind, field.elem))
               ELSE IF ImplementsTextMarshaler(field.kind) THEN FormatMarshaler(field, v)
               ELSE Formatted(Sprintf("%v", v, field.kind, field.elem))

\* The body of WriteRecord's loop for one eligible field holding fieldValue:
\* the cell appended to values, or the cause of the FieldFormatError.
\* fieldKind is taken before the pointer is followed.
FormatField(field, fieldValue) ==
    LET fieldKind == IF field.ptr THEN "ptr" ELSE field.kind
    IN IF fieldKind = "ptr" /\ fieldValue = Nil
       THEN Formatted(TagGetText(field.null))
       ELSE LET v == IF fieldKind = "ptr" THEN fieldValue[1] ELSE fieldValue
            IN IF ConvertibleToTime(field.kind) /\ TagLookup(field.time_format)
               THEN FormatTime(field, v)
               ELSE IF ImplementsTextMarshaler(field.kind) THEN FormatMarshaler(field, v)
               ELSE IF fieldKind = "slice" THEN FormatSlice(field, v)
               ELSE IF TagLookup(field.format)
                    THEN Formatted(Sprintf(TagGet(field.format), v, field.kind, field.elem))
               ELSE Formatted(Sprintf("%v", v, field.kind, field.elem))

RECURSIVE WriteValues(_, _, _, _)
\* WriteRecord's loop from struct field i on, values being the cells so far:
\* the error returned from inside the loop (NilError when it runs to its
\* end) and the values
WriteValues(T, record, i, values) ==
    IF i > Len(T) THEN [err |-> NilError, values |-> values]
    ELSE IF ~isValidCSVField(T[i]) THEN WriteValues(T, record, i + 1, values)
    ELSE LET r == FormatField(T[i], record[i])
         IN IF r.err # NoErr
            THEN [err |-> FieldFormatError(T[i].csv, r.err), values |-> values]
            ELSE WriteValues(T, record, i + 1, Append(values, r.text))

\* WriteHeader's loop: the csv tag values of the eligible fields
HeaderRow(T) == [i \in 1..Len(EligibleFields(T)) |-> EligibleFields(T)[i].csv]

\* -------------------------------------------------- ReadRecord, one field
\* What the loop body does with one field: err is the cause (NoErr when the
\* loop goes on), name the Field of the FieldParseError, val the value the
\* struct field holds afterwards.
Stored(v) == [err |-> NoErr, name |-> <<>>, val |-> v]
ParseError(name, e, v) == [err |-> e, name |-> name, val |-> v]

\* the end of the Time branch: t is what the parser returned, zero the value
\* the field holds when nothing is stored
TimeParsed(field, zero, t) ==
    IF t.err # NoErr THEN ParseError(field.csv, t.err, zero) ELSE Stored(t.val)

\* the Time branch with a time_location: location is what LoadLocation returned
ParseTimeInLocation(field, value, zero, location) ==
    IF location.err # NoErr THEN ParseError(field.csv, location.err, zero)
    ELSE TimeParsed(field, zero,
                    TimeParseInLocation(TagGet(field.time_format), value, location.off))

\* the Time branch of ReadRecord with a time_format
ParseTime(field, value, zero) ==
    IF TagGet(field.time_location) # ""
    THEN ParseTimeInLocation(field, value, zero, LoadLocation(TagGet(field.time_location)))
    ELSE TimeParsed(field, zero, TimeParse(TagGet(field.time_format), value))

\* the end of the TextUnmarshaler branch: u is what UnmarshalText returned
Unmarshaled(field, u) ==
    IF u.err # NoErr THEN ParseError(field.csv, u.err, u.val) ELSE Stored(u.val)

\* the TextUnmarshaler branch of ReadRecord
ParseUnmarshaler(field, value) == Unmarshaled(field, UnmarshalText(field.kind, value))

RECURSIVE ParseItems(_, _, _, _)
RECURSIVE ParseItem(_, _, _, _, _)
\* a faulty loop body that puts each new item in front of the slice
ParseItemPrepending(field, items, itemIndex, slice, r) ==
    IF r.err # NoErr
    THEN ParseError(field.csv \o <<"[">> \o Itoa(itemIndex) \o <<"]">>, r.err,
                    ZeroOfKind("slice"))
    ELSE ParseItems(field, items, itemIndex + 1, <<r.val>> \o slice)

\* a faulty ParseItem that counts the pieces from one in the error's Field
ParseItemOneBased(field, items, itemIndex, slice, r) ==
    IF r.err # NoErr
    THEN ParseError(field.csv \o <<"[">> \o Itoa(itemIndex + 1) \o <<"]">>, r.err,
                    ZeroOfKind("slice"))
    ELSE ParseItems(field, items, itemIndex + 1, Append(slice, r.val))

\* the Slice branch's loop body for the piece at itemIndex (zero-based): r
\* is what Sscanf returned for it
ParseItem(field, items, itemIndex, slice, r) ==
    IF r.err # NoErr
    THEN ParseError(field.csv \o <<"[">> \o Itoa(itemIndex) \o <<"]">>, r.err,
                    ZeroOfKind("slice"))
    ELSE ParseItems(field, items, itemIndex + 1, Append(slice, r.val))

\* the Slice branch's loop over the pieces from itemIndex on
ParseItems(field, items, itemIndex, slice) ==
    IF itemIndex >= Len(items) THEN Stored(slice)
    ELSE ParseItem(field, items, itemIndex, slice,
                   Sscanf(items[itemIndex + 1], field.elem, "none"))

\* the Slice branch of ReadRecord
ParseSlice(field, value) ==
    ParseItems(field, Split(value, TagGetText(field.separator)), 0, <<>>)

\* the end of the Default branch: r is what Sscanf returned.  An io.EOF
\* stores the zero value and is no error.
DefaultScanned(field, r) ==
    IF r.err = EOF THEN Stored(ZeroOfKind(field.kind))
    ELSE IF r.err # NoErr THEN ParseError(field.csv, r.err, r.val)
    ELSE Stored(r.val)

\* the Default branch of ReadRecord
ParseDefault(field, value) == DefaultScanned(field, Sscanf(value, field.kind, field.elem))

\* the branches after the Pointer branch, on the value the pointer was
\* followed to
ParseInner(field, fieldKind, value) ==
    IF ConvertibleToTime(field.kind) /\ TagGet(field.time_format) # ""
    THEN ParseTime(field, value, ZeroOfKind(field.kind))
    ELSE IF ImplementsTextUnmarshaler(field.kind) THEN ParseUnmarshaler(field, value)
    ELSE IF fieldKind = "slice" THEN ParseSlice(field, value)
    ELSE ParseDefault(field, value)

\* what a pointer field holds after an inner branch: the new inner value
Pointed(fieldKind, r) ==
    IF fieldKind = "ptr" THEN [r EXCEPT !.val = PtrTo(r.val)] ELSE r

\* a faulty loop body that reads the null tag with Get, so that a declared
\* empty null token is no token
ParseFieldNullGet(field, value) ==
    IF KindOf(field) = "ptr" /\ TagGetText(field.null) # <<>> /\ value = TagGetText(field.null)
    THEN Stored(Nil)
    ELSE Pointed(KindOf(field), ParseInner(field, KindOf(field), value))

\* The body of ReadRecord's loop for one eligible field whose column is in
\* the header, value being its cell.  A pointer field has been set to a new
\* inner value by the time an inner branch fails.
ParseField(field, value) ==
    IF KindOf(field) = "ptr" /\ TagLookup(field.null) /\ value = TagGetText(field.null)
    THEN Stored(Nil)
    ELSE Pointed(KindOf(field), ParseInner(field, KindOf(field), value))

\* the reader's Header: nil, or a map from column names to positions
NilHeader == [isNil |-> TRUE, index |-> <<>>]
MakeHeader(m) == [isNil |-> FALSE, index |-> m]

RECURSIVE MapHeader(_, _, _)
\* a faulty loop that keeps the position a name already has
MapHeaderFirstWins(header, i, m) ==
    IF i >= Len(header) THEN m
    ELSE MapHeader(header, i + 1,
                   [k \in DOMAIN m \cup {header[i + 1]} |->
                        IF k \in DOMAIN m THEN m[k] ELSE i])

\* ReadHeader's loop: r.Header[field] = i for the cells from position i on
MapHeader(header, i, m) ==
    IF i >= Len(header) THEN m
    ELSE MapHeader(header, i + 1,
                   [k \in DOMAIN m \cup {header[i + 1]} |->
                        IF k = header[i + 1] THEN i ELSE m[k]])

\* new(T)
NewRecord(T) == [i \in 1..Len(T) |-> ZeroOf(T[i])]

RECURSIVE ReadFields(_, _, _, _, _)
RECURSIVE FieldRead(_, _, _, _, _, _)
\* a faulty end of the loop body that goes on after an error and returns
\* the last error of the row
FieldReadLastError(RT, H, values, i, record, r) ==
    IF r.err # NoErr
    THEN LET rest == ReadFields(RT, H, values, i + 1, [record EXCEPT ![i] = r.val])
         IN IF rest.err # NilError THEN rest
            ELSE [record |-> rest.record, err |-> FieldParseError(r.name, r.err)]
    ELSE ReadFields(RT, H, values, i + 1, [record EXCEPT ![i] = r.val])

\* a faulty loop that does not look at the ok of the header lookup: a
\* column absent from the header is read at position 0
ReadFieldsWithoutOk(RT, H, values, i, record) ==
    IF i > Len(RT) THEN [record |-> PtrTo(record), err |-> NilError]
    ELSE IF ~isValidCSVField(RT[i]) THEN ReadFields(RT, H, values, i + 1, record)
    ELSE IF RT[i].csv \notin DOMAIN H.index
         THEN IF Len(values) = 0 THEN [record |-> Nil, err |-> Panic]
              ELSE FieldRead(RT, H, values, i, record, ParseField(RT[i], values[1]))
    ELSE IF H.index[RT[i].csv] >= Len(values) THEN [record |-> Nil, err |-> Panic]
    ELSE FieldRead(RT, H, values, i, record,
                   ParseField(RT[i], values[H.index[RT[i].csv] + 1]))

\* the end of ReadRecord's loop body for struct field i: r is what the
\* branches did with its cell
FieldRead(RT, H, values, i, record, r) ==
    IF r.err # NoErr
    THEN [record |-> PtrTo([record EXCEPT ![i] = r.val]),
          err |-> FieldParseError(r.name, r.err)]
    ELSE ReadFields(RT, H, values, i + 1, [record EXCEPT ![i] = r.val])

\* ReadRecord's loop from struct field i on: the record and the error the
\* call returns; values[index] panics when the row has no such cell
ReadFields(RT, H, values, i, record) ==
    IF i > Len(RT) THEN [record |-> PtrTo(record), err |-> NilError]
    ELSE IF ~isValidCSVField(RT[i]) THEN ReadFields(RT, H, values, i + 1, record)
    ELSE IF RT[i].csv \notin DOMAIN H.index
         THEN ReadFields(RT, H, values, i + 1, record)
    ELSE IF H.index[RT[i].csv] >= Len(values) THEN [record |-> Nil, err |-> Panic]
    ELSE FieldRead(RT, H, values, i, record,
                   ParseField(RT[i], values[H.index[RT[i].csv] + 1]))

\* ------------------------------------------------------------------ state
VARIABLES
    T,                \* the record type: its struct fields in declaration order
    file,             \* the rows of the medium the csv.Reader reads and the csv.Writer fills
    pos,              \* csv.Reader: the rows it has consumed
    FieldsPerRecord,  \* csv.Reader.FieldsPerRecord
    Header,           \* TypedCSVReader.Header
    rRet,             \* the reader's last call and what it returned
    todo,             \* the calls the writer's caller makes, in order
    done,             \* how many of them it has made
    wbuf,             \* csv.Writer: the rows buffered
    sinkFails,        \* whether the io.Writer under the csv.Writer rejects writes
    werr,             \* csv.Writer: the sticky error of its buffer
    wRet              \* the writer's last call and what it returned

vars == <<T, file, pos, FieldsPerRecord, Header, rRet, todo, done, wbuf, sinkFails, werr, wRet>>
readerVars == <<pos, FieldsPerRecord, Header, rRet>>
writerVars == <<todo, done, wbuf, werr, wRet>>

\* ------------------------------------------------------------ csv.Reader
\* csv.Reader.Read: the next row, or io.EOF; with FieldsPerRecord 0 the
\* first row read sets it, with a positive one a row of another width is
\* returned with ErrFieldCount, with a negative one nothing is checked
CsvRead(f, p, fpr) ==
    IF p >= Len(f) THEN [row |-> <<>>, err |-> IoEOF, pos |-> p, fpr |-> fpr]
    ELSE LET row == f[p + 1]
         IN IF fpr > 0 /\ Len(row) # fpr
            THEN [row |-> row, err |-> ErrFieldCount, pos |-> p + 1, fpr |-> fpr]
            ELSE [row |-> row, err |-> NilError, pos |-> p + 1,
                  fpr |-> IF fpr = 0 THEN Len(row) ELSE fpr]

\* ---------------------------------------------------------------- reader
Returned(op, from, record, records, err) ==
    [op |-> op, from |-> from, record |-> record, records |-> records, err |-> err]

\* a faulty ReadHeader that builds the map before it looks at the error
HeaderReadUnchecked(rd) ==
    /\ pos' = rd.pos
    /\ FieldsPerRecord' = rd.fpr
    /\ Header' = MakeHeader(MapHeader(rd.row, 0, <<>>))
    /\ rRet' = Returned("ReadHeader", pos, Nil, <<>>, rd.err)
    /\ UNCHANGED <<T, file, sinkFails, writerVars>>

\* ReadHeader after its r.Reader.Read(), which returned rd
HeaderRead(rd) ==
    /\ pos' = rd.pos
    /\ FieldsPerRecord' = rd.fpr
    /\ Header' = IF rd.err # NilError THEN Header
                 ELSE MakeHeader(MapHeader(rd.row, 0, <<>>))
    /\ rRet' = Returned("ReadHeader", pos, Nil, <<>>, rd.err)
    /\ UNCHANGED <<T, file, sinkFails, writerVars>>

ReadHeader == HeaderRead(CsvRead(file, pos, FieldsPerRecord))

\* what ReadRecord returns, with the csv.Reader's state afterwards
Decoded(record, err, rd) == [record |-> record, err |-> err, pos |-> rd.pos, fpr |-> rd.fpr]
\* a faulty return that leaves a row that failed to be read again
RowDecodedRetrying(r, rd) ==
    Decoded(r.record, r.err, IF r.err # NilError THEN [rd EXCEPT !.pos = rd.pos - 1] ELSE rd)
RowDecoded(r, rd) == Decoded(r.record, r.err, rd)

\* ReadRecord after its r.Reader.Read(), which returned rd
RowRead(RT, H, rd) ==
    IF rd.err # NilError THEN Decoded(Nil, rd.err, rd)
    ELSE RowDecoded(ReadFields(RT, H, rd.row, 1, NewRecord(RT)), rd)

\* ReadRecord as a function of the reader's state
ReadRecordStep(RT, H, f, p, fpr) ==
    IF H.isNil THEN [record |-> Nil, err |-> ErrHeaderNotRead, pos |-> p, fpr |-> fpr]
    ELSE RowRead(RT, H, CsvRead(f, p, fpr))

RecordReturned(r) ==
    /\ pos' = r.pos
    /\ FieldsPerRecord' = r.fpr
    /\ rRet' = Returned("ReadRecord", pos, r.record, <<>>, r.err)
    /\ UNCHANGED <<T, file, Header, sinkFails, writerVars>>

ReadRecord == RecordReturned(ReadRecordStep(T, Header, file, pos, FieldsPerRecord))

RECURSIVE ReadAllLoop(_, _, _, _, _, _)
RECURSIVE ReadAllStep(_, _, _, _, _)
\* a faulty loop body that returns io.EOF like any other error
ReadAllStepReturningEOF(RT, H, f, records, r) ==
    IF r.err = Panic
    THEN [records |-> <<>>, err |-> Panic, pos |-> r.pos, fpr |-> r.fpr]
    ELSE IF r.err # NilError
    THEN [records |-> records, err |-> r.err, pos |-> r.pos, fpr |-> r.fpr]
    ELSE ReadAllLoop(RT, H, f, r.pos, r.fpr, Append(records, r.record[1]))

\* a loop body that returns no records with an error
ReadAllStepWithoutRecords(RT, H, f, records, r) ==
    IF r.err = IoEOF
    THEN [records |-> records, err |-> NilError, pos |-> r.pos, fpr |-> r.fpr]
    ELSE IF r.err # NilError
    THEN [records |-> <<>>, err |-> r.err, pos |-> r.pos, fpr |-> r.fpr]
    ELSE ReadAllLoop(RT, H, f, r.pos, r.fpr, Append(records, r.record[1]))

\* the body of ReadAll's loop after its ReadRecord, which returned r; a
\* panic of ReadRecord ends the call without a result
ReadAllStep(RT, H, f, records, r) ==
    IF r.err = IoEOF
    THEN [records |-> records, err |-> NilError, pos |-> r.pos, fpr |-> r.fpr]
    ELSE IF r.err = Panic
    THEN [records |-> <<>>, err |-> Panic, pos |-> r.pos, fpr |-> r.fpr]
    ELSE IF r.err # NilError
    THEN [records |-> records, err |-> r.err, pos |-> r.pos, fpr |-> r.fpr]
    ELSE ReadAllLoop(RT, H, f, r.pos, r.fpr, Append(records, r.record[1]))

\* ReadAll's loop, records being the records appended so far
ReadAllLoop(RT, H, f, p, fpr, records) ==
    ReadAllStep(RT, H, f, records, ReadRecordStep(RT, H, f, p, fpr))

AllReturned(r) ==
    /\ pos' = r.pos
    /\ FieldsPerRecord' = r.fpr
    /\ rRet' = Returned("ReadAll", pos, Nil, r.records, r.err)
    /\ UNCHANGED <<T, file, Header, sinkFails, writerVars>>

ReadAll == AllReturned(ReadAllLoop(T, Header, file, pos, FieldsPerRecord, <<>>))

\* ---------------------------------------------------------------- writer
Wrote(op, record, row, err) == [op |-> op, record |-> record, row |-> row, err |-> err]

\* csv.Writer.Write(row): the row goes to the buffer, unless an earlier
\* write to the sink failed; the rows of the model never fill the buffer
CsvWrite(op, record, row) ==
    /\ wbuf' = IF werr = NilError THEN Append(wbuf, row) ELSE wbuf
    /\ wRet' = Wrote(op, record, PtrTo(row), werr)
    /\ UNCHANGED werr

WriteHeader ==
    /\ done < Len(todo)
    /\ todo[done + 1].op = "WriteHeader"
    /\ done' = done + 1
    /\ CsvWrite("WriteHeader", <<>>, HeaderRow(T))
    /\ UNCHANGED <<T, file, todo, sinkFails, readerVars>>

\* a faulty WriteRecord that hands the cells made before a format error to
\* the csv.Writer
WriteRecordPartial ==
    /\ done < Len(todo)
    /\ todo[done + 1].op = "WriteRecord"
    /\ done' = done + 1
    /\ LET record == todo[done + 1].record
           r == WriteValues(T, record, 1, <<>>)
       IN IF r.err # NilError
          THEN /\ wRet' = Wrote("WriteRecord", record, Nil, r.err)
               /\ wbuf' = Append(wbuf, r.values)
               /\ UNCHANGED werr
          ELSE CsvWrite("WriteRecord", record, r.values)
    /\ UNCHANGED <<T, file, todo, sinkFails, readerVars>>

WriteRecord ==
    /\ done < Len(todo)
    /\ todo[done + 1].op = "WriteRecord"
    /\ done' = done + 1
    /\ LET record == todo[done + 1].record
           r == WriteValues(T, record, 1, <<>>)
       IN IF r.err # NilError
          THEN /\ wRet' = Wrote("WriteRecord", record, Nil, r.err)
               /\ UNCHANGED <<wbuf, werr>>
          ELSE CsvWrite("WriteRecord", record, r.values)
    /\ UNCHANGED <<T, file, todo, sinkFails, readerVars>>

\* a faulty Flush that drops the rows a sink rejects and keeps no error
FlushDroppingError ==
    /\ IF werr # NilError \/ wbuf = <<>> THEN UNCHANGED <<file, wbuf, werr>>
       ELSE IF sinkFails THEN wbuf' = <<>> /\ UNCHANGED <<file, werr>>
       ELSE file' = file \o wbuf /\ wbuf' = <<>> /\ UNCHANGED werr
    /\ wRet' = Wrote("Flush", <<>>, Nil, NilError)
    /\ UNCHANGED <<T, todo, done, sinkFails, readerVars>>

\* csv.Writer.Flush: the buffered rows go to the sink; a sink that rejects
\* them leaves the buffer's error set
Flush ==
    /\ IF werr # NilError \/ wbuf = <<>> THEN UNCHANGED <<file, wbuf, werr>>
       ELSE IF sinkFails THEN werr' = ErrWrite /\ UNCHANGED <<file, wbuf>>
       ELSE file' = file \o wbuf /\ wbuf' = <<>> /\ UNCHANGED werr
    /\ wRet' = Wrote("Flush", <<>>, Nil, NilError)
    /\ UNCHANGED <<T, todo, done, sinkFails, readerVars>>

\* TypedCSVWriter.Error
Error ==
    /\ wRet' = Wrote("Error", <<>>, Nil, werr)
    /\ UNCHANGED <<T, file, todo, done, wbuf, werr, sinkFails, readerVars>>

\* ---------------------------------------------------------- record types
\* The struct fields of the repository's example record types (Person,
\* TimeTestRecord, OptionalTestRecord, SliceTestRecord, FormatTestRecord,
\* MapTestRecord, ...), with one-character column names and "N" for "NULL".
FString == Field(<<"s">>, "string")
FOptional == [Field(<<"o">>, "string") EXCEPT !.ptr = TRUE]
FOptionalNull == [FOptional EXCEPT !.null = Tag(<<"N">>)]
FOptionalEmptyNull == [FOptional EXCEPT !.null = Tag(<<>>)]
FAge == Field(<<"g">>, "uint8")
FHex == [Field(<<"x">>, "uint8") EXCEPT !.format = Tag("%02x")]
FActive == Field(<<"b">>, "bool")
FStatus == Field(<<"p">>, "status")
FStatusFormat == [FStatus EXCEPT !.format = Tag("%02x")]
FTime == [Field(<<"t">>, "time") EXCEPT !.time_format = Tag(LayoutCivil)]
FTimeTokyo == [FTime EXCEPT !.time_location = Tag("Asia/Tokyo")]
FTimeWrongLocation == [FTime EXCEPT !.time_location = Tag("abcdef")]
FTimeWithoutFormat == Field(<<"t">>, "time")
FOptionalTime == [FTimeWithoutFormat EXCEPT !.ptr = TRUE, !.null = Tag(<<"N">>)]
FCustomTime == [FTimeTokyo EXCEPT !.kind = "customtime"]
FCustomTimeWithoutFormat == Field(<<"c">>, "customtime")
FSlice == [SliceField(<<"l">>, "string") EXCEPT !.separator = Tag(<<";">>)]
FSliceWithoutSeparator == SliceField(<<"l">>, "string")
FHexSlice == [SliceField(<<"h">>, "uint8") EXCEPT !.format = Tag("%02x"), !.separator = Tag(<<>>)]
FNumSlice == [SliceField(<<"h">>, "uint8") EXCEPT !.separator = Tag(<<";">>)]
FOptionalSlice == [FSlice EXCEPT !.ptr = TRUE]
FMap == Field(<<"m">>, "map")
FSliceOfMap == SliceField(<<"m">>, "map")
\* a field without a csv tag, and an unexported field with one
FSkipped == Field(<<>>, "string")
FUnexported == [Field(<<"u">>, "bool") EXCEPT !.exported = FALSE]

\* record types of one eligible field
OneFieldTypes ==
    {<<f>> : f \in {FString, FOptional, FOptionalNull, FOptionalEmptyNull, FAge, FHex,
                    FActive, FStatus, FStatusFormat, FTime, FTimeTokyo, FTimeWrongLocation,
                    FTimeWithoutFormat, FOptionalTime, FCustomTime, FCustomTimeWithoutFormat,
                    FSlice, FSliceWithoutSeparator, FHexSlice, FNumSlice, FOptionalSlice,
                    FMap, FSliceOfMap}}

\* record types of two eligible fields
Person == <<FString, FSkipped, FAge, FUnexported>>
TimeFormatTestRecord == <<[FTimeTokyo EXCEPT !.csv = <<"w">>], FTime>>
WrongLocationStatus == <<FTimeWrongLocation, FStatus>>
OptionalList == <<FOptionalNull, FSlice>>
NameStatus == <<FString, FStatus>>
TwoFieldTypes == {Person, TimeFormatTestRecord, WrongLocationStatus, OptionalList, NameStatus}

RecordTypes == OneFieldTypes \cup TwoFieldTypes

\* ---------------------------------------------------------------- inputs
\* texts outside the alphabet that the parsers tell apart
SpecialTexts ==
    {TextActive, <<"N">>, <<"1", "Z">>, <<"1", "+", "9">>, <<"t", "r", "u", "e">>,
     <<"t", "r">>, <<"0", "1", "1">>, <<"2", "5", "6">>, <<"0", "x">>, <<"\n", "a">>,
     <<"a", ";", "b", ";", "c">>}

RichTexts == TextsUpTo(MaxLen) \cup SpecialTexts

\* two cell texts for a column of a record type of several fields
SampleTexts(f) ==
    IF f.ptr THEN {<<"N">>, <<"a">>}
    ELSE CASE f.kind = "string" -> {<<"a">>, <<>>}
           [] f.kind = "uint8" -> {<<"1">>, <<"a">>}
           [] f.kind = "bool" -> {<<"1">>, <<"t", "r">>}
           [] f.kind = "status" -> {TextActive, <<"a">>}
           [] f.kind \in {"time", "customtime"} -> {<<"1">>, <<"a">>}
           [] f.kind = "slice" -> {<<"a", ";", "1">>, <<>>}
           [] f.kind = "map" -> {<<"a">>}

Rich(RT) == Len(EligibleFields(RT)) = 1

\* the cell texts generated for the column of a name
CellTexts(RT, name) ==
    LET fs == {i \in 1..Len(RT) : isValidCSVField(RT[i]) /\ RT[i].csv = name}
    IN IF fs = {} THEN {<<"a">>}
       ELSE IF Rich(RT) THEN RichTexts
       ELSE UNION {SampleTexts(RT[i]) : i \in fs}

Unknown == <<"z">>

\* the header rows generated for a record type: its own, and rows with the
\* columns in another order, missing, repeated or unknown
Headers(RT) ==
    LET h == HeaderRow(RT)
    IN IF Rich(RT) THEN {h, <<Unknown>>, <<Unknown>> \o h}
       ELSE {h, <<h[2], h[1]>>, <<h[2]>>, <<h[1], h[1]>>, <<Unknown, h[1]>>}

\* the rows of n cells under a header row
RowsOfWidth(RT, header, n) ==
    {row \in [1..n -> UNION {CellTexts(RT, header[j]) : j \in 1..n}] :
        \A j \in 1..n : row[j] \in CellTexts(RT, header[j])}

\* the data rows generated under a header row: as wide as it, or one cell short
DataRows(RT, header) ==
    RowsOfWidth(RT, header, Len(header))
        \cup (IF Len(header) > 1 THEN RowsOfWidth(RT, header, Len(header) - 1) ELSE {})

SeqsUpTo(S, n) == UNION {[1..k -> S] : k \in 0..n}

\* the inputs generated for a reader of a record type: nothing, or a header
\* row and data rows (one of rich texts, or up to MaxRows of sample texts)
Files(RT) ==
    {<<>>} \cup
    UNION {{<<header>> \o rows :
                rows \in SeqsUpTo(DataRows(RT, header), IF Rich(RT) THEN 1 ELSE MaxRows)} :
           header \in Headers(RT)}

\* the values generated for a kind: rich ones for a record type of one
\* field, two samples otherwise
ElemValues(elem) ==
    CASE elem = "string" -> TextsUpTo(1)
      [] elem = "uint8" -> {0, 1, 17}
      [] elem = "map" -> {<<>>}

KindValues(f, rich) ==
    CASE f.kind = "string" -> IF rich THEN TextsUpTo(MaxLen) \cup {<<"N">>} ELSE {<<"a">>, <<>>}
      [] f.kind = "uint8" -> IF rich THEN {0, 1, 8, 17, 255} ELSE {1, 17}
      [] f.kind = "bool" -> BOOLEAN
      [] f.kind = "status" -> IF rich THEN {0, 1, 2, 100} ELSE {1, 100}
      [] f.kind \in {"time", "customtime"} ->
            IF rich THEN {Time(0, 0), Time(1, 0), Time(1, 9), Time(10, 9)}
            ELSE {Time(1, 0), Time(1, 9)}
      [] f.kind = "map" -> {<<>>}
      [] f.kind = "slice" ->
            IF rich
            THEN SeqsUpTo(ElemValues(f.elem), MaxElems)
                    \cup (IF f.elem = "string" THEN {<<<<"a">>, <<"b">>, <<"c">>>>} ELSE {})
            ELSE {<<>>} \cup {<<v, v>> : v \in {CHOOSE e \in ElemValues(f.elem) : TRUE}}

FieldValues(f, rich) ==
    IF ~isValidCSVField(f) THEN {ZeroOf(f)}
    ELSE IF f.ptr THEN {Nil} \cup {PtrTo(v) : v \in KindValues(f, rich)}
    ELSE KindValues(f, rich)

RECURSIVE RecordsFrom(_, _)
\* the value sequences generated for the struct fields from field i on
RecordsFrom(RT, i) ==
    IF i > Len(RT) THEN {<<>>}
    ELSE {<<v>> \o r : v \in FieldValues(RT[i], Rich(RT)), r \in RecordsFrom(RT, i + 1)}

\* the records generated for a record type
Records(RT) == RecordsFrom(RT, 1)

CallWriteHeader == [op |-> "WriteHeader", record |-> <<>>]
CallWriteRecord(r) == [op |-> "WriteRecord", record |-> r]
Calls(RT) == {CallWriteHeader} \cup {CallWriteRecord(r) : r \in Records(RT)}

\* the calls generated for a writer's caller, in order
Workloads(RT) == SeqsUpTo(Calls(RT), IF Rich(RT) THEN 1 ELSE MaxWrites)

\* WriteHeader, then records
RoundTrips(RT) ==
    {<<CallWriteHeader>> \o [i \in 1..Len(rs) |-> CallWriteRecord(rs[i])] :
        rs \in SeqsUpTo(Records(RT), IF Rich(RT) THEN 1 ELSE MaxWrites)}

\* -------------------------------------------------------- specifications
NoCall == Returned("none", 0, Nil, <<>>, NilError)
NoWrite == Wrote("none", <<>>, Nil, NilError)

\* NewReader and NewWriter
Constructed ==
    /\ T \in RecordTypes
    /\ pos = 0
    /\ done = 0
    /\ Header = NilHeader
    /\ rRet = NoCall
    /\ wbuf = <<>>
    /\ werr = NilError
    /\ wRet = NoWrite

\* a writer whose output a reader reads
Init ==
    /\ Constructed
    /\ file = <<>>
    /\ FieldsPerRecord = 0
    /\ todo \in RoundTrips(T)
    /\ sinkFails = FALSE

\* a reader over a generated input
ReaderInit ==
    /\ Constructed
    /\ file \in Files(T)
    /\ FieldsPerRecord \in {0, -1}
    /\ todo = <<>>
    /\ sinkFails = FALSE

\* a writer with a generated workload
WriterInit ==
    /\ Constructed
    /\ file = <<>>
    /\ FieldsPerRecord = 0
    /\ todo \in Workloads(T)
    /\ sinkFails \in BOOLEAN

ReaderNext == ReadHeader \/ ReadRecord \/ ReadAll
WriterNext == WriteHeader \/ WriteRecord \/ Flush \/ Error
Next == ReaderNext \/ WriterNext

Spec == Init /\ [][Next]_vars
ReaderSpec == ReaderInit /\ [][ReaderNext]_vars
WriterSpec == WriterInit /\ [][WriterNext]_vars
\* any of the three: a reader over a generated input, or a writer with a
\* generated workload and a reader of what it wrote
FullSpec == (Init \/ ReaderInit \/ WriterInit) /\ [][Next]_vars

\* ------------------------------------------------------------ properties
\* The properties read the calls' results from rRet and wRet.  After a
\* ReadRecord or ReadAll, Header is the header index the call used, and so
\* is FieldsPerRecord once a header was read.

\* struct field i is eligible: exported, with a non-empty csv tag
Eligible(i) == T[i].exported /\ T[i].csv # <<>>

\* the column names of the eligible fields, in declaration order
ColumnNames == LET S == SelectSeq(T, LAMBDA f : f.exported /\ f.csv # <<>>)
               IN [i \in 1..Len(S) |-> S[i].csv]

\* the column of struct field i is a key of the header index
InHeader(i) == T[i].csv \in DOMAIN Header.index
HasCell(i, row) == Header.index[T[i].csv] < Len(row)
Cell(i, row) == row[Header.index[T[i].csv] + 1]

\* decoding the cell of struct field i fails
Fails(i, row) ==
    /\ Eligible(i) /\ InHeader(i) /\ HasCell(i, row)
    /\ ParseField(T[i], Cell(i, row)).err # NoErr

\* the loop of ReadRecord gets as far as struct field i
Reached(i, row) == \A j \in 1..(i - 1) : ~Fails(j, row)

\* the last reader call was a ReadRecord that took a row from the csv.Reader
ReadARow == rRet.op = "ReadRecord" /\ ~Header.isNil /\ pos = rRet.from + 1
ConsumedRow == file[rRet.from + 1]

\* what ReadRecord returns from csv position k with the present header
RecordAt(k) == ReadRecordStep(T, Header, file, k, FieldsPerRecord)

RECURSIVE Written(_)
\* the records the first n calls of the writer's caller got into rows
Written(n) ==
    IF n = 0 THEN <<>>
    ELSE IF todo[n].op = "WriteRecord" /\ WriteValues(T, todo[n].record, 1, <<>>).err = NilError
         THEN Append(Written(n - 1), todo[n].record)
         ELSE Written(n - 1)

\* two values of a field are equal, times being equal as instants
SameInner(f, a, b) == IF ConvertibleToTime(f.kind) THEN a.unix = b.unix ELSE a = b
SameValue(f, a, b) ==
    IF f.ptr THEN IF Len(a) = 0 \/ Len(b) = 0 THEN Len(a) = Len(b)
                  ELSE SameInner(f, a[1], b[1])
    ELSE SameInner(f, a, b)

\* a field whose text is produced by no format spec and no time layout
Lossless(f) == ~TagLookup(f.format) /\ ~TagLookup(f.time_format)

\* a field that is not optional and whose type, and element type, is a
\* string, a number, a boolean, a time or a type with the two text hooks
Plain(f) == ~f.ptr /\ f.kind \notin {"map", "customtime"} /\ f.elem # "map"

\* ReadRecord has decoded a row that WriteRecord produced, under the header
\* row WriteHeader produced, for a record type of plain fields without lossy
\* format specs
RoundTripped ==
    /\ ReadARow
    /\ rRet.from >= 1
    /\ Header.index = MapHeader(HeaderRow(T), 0, <<>>)
    /\ \A i \in 1..Len(T) : Eligible(i) => Lossless(T[i]) /\ Plain(T[i])

\* C1: a record written by WriteRecord and decoded by ReadRecord from the
\* row produced, under the header row WriteHeader produced, is decoded
\* without error into a record whose eligible fields equal the original's,
\* for every record type whose fields use no lossy format spec.  The
\* property is stated for the plain fields alone, where it is least in doubt.
C1_RoundTrip ==
    RoundTripped =>
        /\ rRet.err = NilError
        /\ \A i \in 1..Len(T) :
              Eligible(i) => SameValue(T[i], rRet.record[1][i], Written(done)[rRet.from][i])

\* a ReadHeader has just returned without error
ReadHeaderSucceeds == rRet' # rRet /\ rRet'.op = "ReadHeader" /\ rRet'.err = NilError

\* C2: ReadRecord returns ErrHeaderNotRead exactly when the reader has no
\* header, and the reader has a header exactly from the first ReadHeader
\* that returns without error on (a ReadHeader that fails leaves it without).
C2_HeaderNotRead ==
    /\ [](rRet.op = "none" => Header.isNil)
    /\ [](rRet.op = "ReadRecord" => (rRet.err = ErrHeaderNotRead <=> Header.isNil))
    /\ [][~Header'.isNil <=> (~Header.isNil \/ ReadHeaderSucceeds)]_vars

C2_Witness ==
    /\ rRet.op = "ReadRecord" /\ rRet.err = ErrHeaderNotRead
    /\ file = <<>>

\* every row from csv position k on decodes without error
AllDecode(k) == \A j \in k..(Len(file) - 1) : RecordAt(j).err = NilError

\* C3: after a ReadHeader, when every remaining row decodes without error,
\* ReadAll returns the records of the remaining rows, one per row and in row
\* order, with a nil error; with no remaining row it returns no record.
C3_ReadAll ==
    (rRet.op = "ReadAll" /\ ~Header.isNil /\ AllDecode(rRet.from)) =>
        /\ rRet.err = NilError
        /\ Len(rRet.records) = Len(file) - rRet.from
        /\ \A k \in 1..Len(rRet.records) :
              rRet.records[k] = RecordAt(rRet.from + k - 1).record[1]
        /\ pos = Len(file)

C3_Witness ==
    /\ rRet.op = "ReadAll" /\ rRet.err = NilError
    /\ rRet.from = 1 /\ Len(rRet.records) = 2
    /\ rRet.records[1] # rRet.records[2]

\* ReadAll has returned an error that a ReadRecord inside it returned
ReadAllFailed == rRet.op = "ReadAll" /\ rRet.err \notin {NilError, Panic}

\* C4, as the code has it: when a ReadRecord inside ReadAll returns an error
\* other than io.EOF, ReadAll returns at once with that error and with the
\* records of the rows before the failing one, in row order; no row after
\* the failing one is read.
C4_ReadAllPartial ==
    ReadAllFailed =>
        LET k == Len(rRet.records)
        IN /\ \A j \in 1..k :
                 /\ RecordAt(rRet.from + j - 1).err = NilError
                 /\ rRet.records[j] = RecordAt(rRet.from + j - 1).record[1]
           /\ RecordAt(rRet.from + k).err = rRet.err
           /\ RecordAt(rRet.from + k).pos = pos

C4_Witness ==
    /\ ReadAllFailed
    /\ rRet.err.type = "FieldParseError"
    /\ Len(rRet.records) = 1

\* C4, as stated: when a ReadRecord inside ReadAll fails with an error other
\* than io.EOF, ReadAll returns that error and none of the records decoded
\* from the rows before the failing one.
C4_WithoutPartial == ReadAllFailed => rRet.records = <<>>

\* the last reader call was a ReadRecord that returned a record
Decoded1 == ReadARow /\ Len(rRet.record) = 1

\* the error ReadRecord returned is not about struct field i
NoErrorFor(i) == rRet.err = NilError \/ ~HasPrefix(rRet.err.Field, T[i].csv)

\* the null token a field declares, if it declares one
DeclaresNull(f) == f.null # NoTag
NullToken(f) == f.null[1]

\* the place of eligible struct field i among the eligible fields
Column(i) == Cardinality({j \in 1..i : Eligible(j)})

\* the last writer call was a WriteRecord that made a row
WroteARow == wRet.op = "WriteRecord" /\ Len(wRet.row) = 1

\* C5: decoding an optional field that declares a null token (the empty
\* token too) from a cell equal to the token leaves the field nil, with no
\* error for it; without a declared token the field is never nil, and the
\* empty cell gives a pointer to the zero value.  Encoding a nil optional
\* field gives the declared null token, or the empty text without one.
C5_NullToken ==
    /\ Decoded1 =>
          \A i \in 1..Len(T) :
              (Eligible(i) /\ T[i].ptr /\ InHeader(i) /\ Reached(i, ConsumedRow)) =>
                  LET cell == Cell(i, ConsumedRow)
                      got == rRet.record[1][i]
                  IN /\ (DeclaresNull(T[i]) /\ cell = NullToken(T[i])) =>
                            (Len(got) = 0 /\ NoErrorFor(i))
                     /\ ~DeclaresNull(T[i]) => Len(got) = 1
                     /\ (~DeclaresNull(T[i]) /\ cell = <<>>) => got = PtrTo(ZeroOfKind(T[i].kind))
    /\ WroteARow =>
          \A i \in 1..Len(T) :
              (Eligible(i) /\ T[i].ptr /\ Len(wRet.record[i]) = 0) =>
                  wRet.row[1][Column(i)] = (IF DeclaresNull(T[i]) THEN NullToken(T[i]) ELSE <<>>)

\* a nil optional field was written as the declared empty token and read
\* back as nil
C5_Witness ==
    /\ T = <<FOptionalEmptyNull>>
    /\ Decoded1 /\ rRet.err = NilError /\ rRet.from = 1
    /\ Header.index = MapHeader(ColumnNames, 0, <<>>)
    /\ ConsumedRow = <<<<>>>>
    /\ Len(rRet.record[1][1]) = 0
    /\ Len(todo) = 2 /\ done = 2
    /\ todo[2].op = "WriteRecord" /\ Len(todo[2].record[1]) = 0

\* C6: a field whose column is not a key of the header index is left at its
\* zero value by ReadRecord, with no error for it, whatever the row holds;
\* when ReadRecord returns no error the fields whose columns are keys hold
\* the values decoded from their cells.
C6_AbsentColumn ==
    Decoded1 =>
        \A i \in 1..Len(T) :
            /\ (Eligible(i) /\ ~InHeader(i)) =>
                  (rRet.record[1][i] = ZeroOf(T[i]) /\ NoErrorFor(i))
            /\ (Eligible(i) /\ InHeader(i) /\ rRet.err = NilError) =>
                  rRet.record[1][i] = ParseField(T[i], Cell(i, ConsumedRow)).val

\* the first field is absent from the header and the second one is decoded
C6_Witness ==
    /\ T = Person
    /\ Decoded1 /\ rRet.err = NilError
    /\ DOMAIN Header.index = {<<"g">>}
    /\ ConsumedRow = <<<<"1">>>>
    /\ rRet.record[1] = << <<>>, <<>>, 1, FALSE >>

\* C7: WriteHeader writes one row, the column names of the eligible fields
\* in declaration order, from the record type alone; ReadHeader on that row
\* gives the header index that maps the name of the i-th eligible field to
\* i - 1 and has no other key.
C7_Header ==
    /\ wRet.op = "WriteHeader" => (wRet.row = PtrTo(ColumnNames) /\ wRet.record = <<>>)
    /\ (rRet.op = "ReadHeader" /\ rRet.err = NilError /\ rRet.from = 0) =>
          /\ file[1] = ColumnNames
          /\ ~Header.isNil
          /\ DOMAIN Header.index = {ColumnNames[k] : k \in 1..Len(ColumnNames)}
          /\ \A k \in 1..Len(ColumnNames) : Header.index[ColumnNames[k]] = k - 1

C7_Witness ==
    /\ T = Person
    /\ rRet.op = "ReadHeader" /\ rRet.err = NilError /\ rRet.from = 0
    /\ file[1] = << <<"s">>, <<"g">> >>
    /\ Header.index[<<"g">>] = 1

FailingFields(row) == {i \in 1..Len(T) : Fails(i, row)}
First(S) == CHOOSE i \in S : \A j \in S : i <= j

\* C8: when cells of a row fail to decode, ReadRecord returns the
\* FieldParseError of the first failing field in declaration order; the
\* fields before it hold their decoded values and the fields after it are
\* left at their zero values.  A row without a failing cell gives no
\* FieldParseError.
C8_FirstError ==
    /\ (ReadARow /\ rRet.err = NilError) => FailingFields(ConsumedRow) = {}
    /\ (ReadARow /\ rRet.err.type = "FieldParseError") =>
          /\ FailingFields(ConsumedRow) # {}
          /\ Len(rRet.record) = 1
          /\ LET j == First(FailingFields(ConsumedRow))
                 r == ParseField(T[j], Cell(j, ConsumedRow))
             IN /\ rRet.err = FieldParseError(r.name, r.err)
                /\ HasPrefix(rRet.err.Field, T[j].csv)
                /\ \A i \in 1..(j - 1) :
                      (Eligible(i) /\ InHeader(i)) =>
                          rRet.record[1][i] = ParseField(T[i], Cell(i, ConsumedRow)).val
                /\ \A i \in (j + 1)..Len(T) : rRet.record[1][i] = ZeroOf(T[i])

\* both cells of the row fail: the zone of the first, the status of the second
C8_Witness ==
    /\ T = WrongLocationStatus
    /\ ReadARow /\ rRet.err = FieldParseError(<<"t">>, ErrUnknownTimeZone)
    /\ FailingFields(ConsumedRow) = {1, 2}
    /\ rRet.record[1][2] = 0

\* a cell of an optional field that is its declared null token
IsNullToken(f, v) == f.ptr /\ DeclaresNull(f) /\ v = NullToken(f)

\* the error of the zone resolution, of the parsing by the time layout or of
\* the UnmarshalText hook for a cell of a field, NoErr when there is none
DecodeCause(f, v) ==
    IF ConvertibleToTime(f.kind) /\ TagGet(f.time_format) # ""
    THEN IF TagGet(f.time_location) = "" THEN TimeParse(TagGet(f.time_format), v).err
         ELSE IF LoadLocation(TagGet(f.time_location)).err # NoErr
              THEN LoadLocation(TagGet(f.time_location)).err
              ELSE TimeParseInLocation(TagGet(f.time_format), v,
                                       LoadLocation(TagGet(f.time_location)).off).err
    ELSE IF ImplementsTextUnmarshaler(f.kind) THEN UnmarshalText(f.kind, v).err
    ELSE NoErr

\* the error of the zone resolution or of the MarshalText hook for a value
\* of a field, NoErr when there is none
EncodeCause(f, v) ==
    IF ConvertibleToTime(f.kind) /\ TagLookup(f.time_format)
    THEN IF TagLookup(f.time_location) THEN LoadLocation(TagGet(f.time_location)).err
         ELSE NoErr
    ELSE IF ImplementsTextMarshaler(f.kind) THEN MarshalText(f.kind, v).err
    ELSE NoErr

\* the value a field holds is present: not the nil of an optional field
Present(f, v) == ~f.ptr \/ Len(v) = 1
Inner(f, v) == IF f.ptr THEN v[1] ELSE v

\* the loop of WriteRecord gets as far as struct field i
Formats(i, record) ==
    \A j \in 1..(i - 1) : Eligible(j) => FormatField(T[j], record[j]).err = NoErr

\* C9: when the zone resolution, the parsing by the time layout or a text
\* hook fails for a field, ReadRecord returns a FieldParseError, and
\* WriteRecord a FieldFormatError, whose Field is the column name of the
\* field and whose Unwrap is the error that the failing step returned.
C9_Cause ==
    /\ Decoded1 =>
          \A i \in 1..Len(T) :
              (/\ Eligible(i) /\ InHeader(i) /\ Reached(i, ConsumedRow)
               /\ ~IsNullToken(T[i], Cell(i, ConsumedRow))
               /\ DecodeCause(T[i], Cell(i, ConsumedRow)) # NoErr) =>
                  /\ rRet.err.type = "FieldParseError"
                  /\ rRet.err.Field = T[i].csv
                  /\ Unwrap(rRet.err) = DecodeCause(T[i], Cell(i, ConsumedRow))
    /\ wRet.op = "WriteRecord" =>
          \A i \in 1..Len(T) :
              (/\ Eligible(i) /\ Formats(i, wRet.record)
               /\ Present(T[i], wRet.record[i])
               /\ EncodeCause(T[i], Inner(T[i], wRet.record[i])) # NoErr) =>
                  /\ wRet.err.type = "FieldFormatError"
                  /\ wRet.err.Field = T[i].csv
                  /\ Unwrap(wRet.err) = EncodeCause(T[i], Inner(T[i], wRet.record[i]))

\* the UnmarshalText hook of the status has failed
C9_Witness ==
    /\ T = <<FStatus>>
    /\ Decoded1 /\ ConsumedRow = << <<"a">> >>
    /\ rRet.err = FieldParseError(<<"p">>, ErrUnknownStatus)
    /\ Unwrap(rRet.err) = PersonStatusUnmarshalText(0, <<"a">>).err

\* sep occurs in the text s
Contains(s, sep) ==
    \E k \in 0..(Len(s) - Len(sep)) : SubSeq(s, k + 1, k + Len(sep)) = sep

\* the format spec that renders the elements of a list field
ElementFormat(f) == IF f.format # NoTag THEN f.format[1] ELSE "%v"
SeparatorOf(f) == IF f.separator # NoTag THEN f.separator[1] ELSE <<>>

ABC == << <<"a">>, <<"b">>, <<"c">> >>

\* C10: a list field is decoded from the pieces of its cell between the
\* occurrences of the declared separator (the characters of the cell when
\* the separator is empty), one element per piece and in their order, and
\* is encoded as its elements, each rendered with the declared format spec
\* ("%v" without one), joined with the declared separator.  With ";" the
\* cell a;b;c gives the list a, b, c and that list gives the cell a;b;c.
C10_List ==
    /\ Decoded1 =>
          \A i \in 1..Len(T) :
              (/\ Eligible(i) /\ T[i].kind = "slice" /\ ~T[i].ptr
               /\ InHeader(i) /\ Reached(i, ConsumedRow) /\ ~Fails(i, ConsumedRow)) =>
                  LET cell == Cell(i, ConsumedRow)
                      sep == SeparatorOf(T[i])
                      pieces == Split(cell, sep)
                      got == rRet.record[1][i]
                  IN /\ Join(pieces, sep) = cell
                     /\ sep = <<>> => Len(pieces) = Len(cell)
                     /\ \A k \in 1..Len(pieces) :
                           IF sep = <<>> THEN Len(pieces[k]) = 1
                           ELSE ~Contains(pieces[k], sep)
                     /\ Len(got) = Len(pieces)
                     /\ \A k \in 1..Len(got) : got[k] = Sscanf(pieces[k], T[i].elem, "none").val
                     /\ (cell = <<"a", ";", "b", ";", "c">> /\ T[i] = FSlice) => got = ABC
    /\ WroteARow =>
          \A i \in 1..Len(T) :
              (Eligible(i) /\ T[i].kind = "slice" /\ ~T[i].ptr) =>
                  LET v == wRet.record[i]
                      cell == wRet.row[1][Column(i)]
                  IN /\ cell = Join([k \in 1..Len(v) |->
                                        Sprintf(ElementFormat(T[i]), v[k], T[i].elem, "none")],
                                    SeparatorOf(T[i]))
                     /\ (T[i] = FSlice /\ v = ABC) => cell = <<"a", ";", "b", ";", "c">>

\* the list a, b, c was written as a;b;c and read back
C10_Witness ==
    /\ T = <<FSlice>>
    /\ Len(todo) = 2 /\ done = 2
    /\ todo[2].op = "WriteRecord" /\ todo[2].record = <<ABC>>
    /\ Decoded1 /\ rRet.err = NilError /\ rRet.from = 1
    /\ ConsumedRow = << <<"a", ";", "b", ";", "c">> >>
    /\ rRet.record[1] = <<ABC>>

\* a field decoded by the Default branch into a number, a boolean or a string
Scalar(f) == ~f.ptr /\ f.format = NoTag /\ f.kind \in {"string", "uint8", "bool"}

RECURSIVE TrimLeft(_)
TrimLeft(s) == IF s # <<>> /\ IsSpace(Head(s)) THEN TrimLeft(Tail(s)) ELSE s
RECURSIVE TrimRight(_)
TrimRight(s) ==
    IF s # <<>> /\ IsSpace(s[Len(s)]) THEN TrimRight(SubSeq(s, 1, Len(s) - 1)) ELSE s
TrimSpace(s) == TrimRight(TrimLeft(s))

\* A text that is no value of the kind, on the most lenient reading: space
\* around it is overlooked, a number is anything that starts with "0" or is
\* made of decimal digits and fits the 8 bits, a boolean is anything that
\* starts like 0, 1, true or false, and every text is a string.
NotAValue(kind, text) ==
    LET t == TrimSpace(text)
    IN /\ t # <<>>
       /\ CASE kind = "uint8" ->
                  /\ Head(t) # "0"
                  /\ \/ \E k \in 1..Len(t) : ~IsDigitOf(t[k], 10)
                     \/ DigitsValue(t, 10, 0) > 255
            [] kind = "bool" -> Head(t) \notin {"0", "1", "t", "T", "f", "F"}
            [] OTHER -> FALSE

\* C11: ReadRecord decodes the empty cell of a scalar field (a number, a
\* boolean, a string) into the zero value of its type, with no error, and
\* returns a FieldParseError whose Field is the column name for a cell whose
\* text is not a value of the type.
C11_Scalar ==
    Decoded1 =>
        \A i \in 1..Len(T) :
            (Eligible(i) /\ Scalar(T[i]) /\ InHeader(i) /\ Reached(i, ConsumedRow)) =>
                /\ Cell(i, ConsumedRow) = <<>> =>
                      (rRet.record[1][i] = ZeroOfKind(T[i].kind) /\ NoErrorFor(i))
                /\ NotAValue(T[i].kind, Cell(i, ConsumedRow)) =>
                      (rRet.err.type = "FieldParseError" /\ rRet.err.Field = T[i].csv)

\* the rule of WriteRecord that applies first to a present field
RuleOf(f) ==
    IF ConvertibleToTime(f.kind) /\ f.time_format # NoTag THEN "time layout"
    ELSE IF ImplementsTextMarshaler(f.kind) THEN "hook"
    ELSE IF f.kind = "slice" THEN "list"
    ELSE IF f.format # NoTag THEN "format"
    ELSE "default"

\* the time that the time layout renders: the value, in the declared zone
InZone(f, t) ==
    IF f.time_location # NoTag THEN TimeIn(t, LoadLocation(f.time_location[1]).off) ELSE t

\* the text the rule gives for the present value v of a field
Rendered(f, v) ==
    CASE RuleOf(f) = "time layout" -> TimeFormat(f.time_format[1], InZone(f, v))
      [] RuleOf(f) = "hook" -> MarshalText(f.kind, v).text
      [] RuleOf(f) = "list" ->
            Join([k \in 1..Len(v) |-> Sprintf(ElementFormat(f), v[k], f.elem, "none")],
                 SeparatorOf(f))
      [] RuleOf(f) = "format" -> Sprintf(f.format[1], v, f.kind, f.elem)
      [] RuleOf(f) = "default" -> Sprintf("%v", v, f.kind, f.elem)

\* a pointer to a list: the field whose rule is the subject of C13
OptionalListField(f) == f.ptr /\ f.kind = "slice"

Unwrapped(f) == [f EXCEPT !.ptr = FALSE]

\* C13: a present optional field is written as a field of its inner type is
\* written, and a cell that is not the null token is decoded into it as a
\* field of the inner type is decoded; so a present optional list is written
\* as its elements joined with the separator and read by splitting the cell.
C13_Optional ==
    /\ WroteARow =>
          \A i \in 1..Len(T) :
              (Eligible(i) /\ T[i].ptr /\ Present(T[i], wRet.record[i])) =>
                  /\ FormatField(Unwrapped(T[i]), Inner(T[i], wRet.record[i])).err = NoErr
                  /\ wRet.row[1][Column(i)]
                        = FormatField(Unwrapped(T[i]), Inner(T[i], wRet.record[i])).text
    /\ Decoded1 =>
          \A i \in 1..Len(T) :
              (/\ Eligible(i) /\ T[i].ptr /\ InHeader(i) /\ Reached(i, ConsumedRow)
               /\ ~IsNullToken(T[i], Cell(i, ConsumedRow))) =>
                  IF ParseField(Unwrapped(T[i]), Cell(i, ConsumedRow)).err = NoErr
                  THEN /\ NoErrorFor(i)
                       /\ rRet.record[1][i]
                             = PtrTo(ParseField(Unwrapped(T[i]), Cell(i, ConsumedRow)).val)
                  ELSE /\ rRet.err.type = "FieldParseError"
                       /\ rRet.err.Field = ParseField(Unwrapped(T[i]), Cell(i, ConsumedRow)).name

\* a list field that is not optional
ListField(f) == f.kind = "slice" /\ ~f.ptr

\* the descriptor of a scalar field of the element type of a list field
ElementOf(f) == [f EXCEPT !.kind = f.elem, !.elem = "none"]

\* the pieces of a cell that the rule of a scalar field does not take
Refused(f, pieces) ==
    {k \in 1..Len(pieces) : ParseDefault(ElementOf(f), pieces[k]).err # NoErr}

\* the name of the piece at the zero-based index of a column
PieceName(f, index) == f.csv \o <<"[">> \o Itoa(index) \o <<"]">>

\* C14: every piece of the cell of a list field is decoded as the Default
\* branch decodes the cell of a scalar field of the element type; so an
\* empty piece gives the zero value of the element type and no error.
C14_EmptyPiece ==
    Decoded1 =>
        \A i \in 1..Len(T) :
            (Eligible(i) /\ ListField(T[i]) /\ InHeader(i) /\ Reached(i, ConsumedRow)) =>
                LET pieces == Split(Cell(i, ConsumedRow), SeparatorOf(T[i]))
                IN IF Refused(T[i], pieces) = {}
                   THEN /\ NoErrorFor(i)
                        /\ Len(rRet.record[1][i]) = Len(pieces)
                        /\ \A k \in 1..Len(pieces) :
                              rRet.record[1][i][k]
                                 = ParseDefault(ElementOf(T[i]), pieces[k]).val
                   ELSE /\ rRet.err.type = "FieldParseError"
                        /\ rRet.err.Field = PieceName(T[i], First(Refused(T[i], pieces)) - 1)

\* the pieces of a cell that fmt.Sscanf does not scan into the element type
FailingPieces(f, pieces) ==
    {k \in 1..Len(pieces) : Sscanf(pieces[k], f.elem, "none").err # NoErr}

\* C15: when pieces of the cell of a list field fail to parse, ReadRecord
\* returns the FieldParseError of the first of them, its Field the column
\* name followed by the zero-based index of the piece in brackets and its
\* cause the error of that piece; the list field is left unassigned (nil),
\* as are the fields after it.
C15_Element ==
    Decoded1 =>
        \A i \in 1..Len(T) :
            (Eligible(i) /\ ListField(T[i]) /\ InHeader(i) /\ Reached(i, ConsumedRow)) =>
                LET pieces == Split(Cell(i, ConsumedRow), SeparatorOf(T[i]))
                    bad == FailingPieces(T[i], pieces)
                IN bad # {} =>
                      /\ rRet.err = FieldParseError(PieceName(T[i], First(bad) - 1),
                                        Sscanf(pieces[First(bad)], T[i].elem, "none").err)
                      /\ rRet.record[1][i] = ZeroOfKind("slice")
                      /\ \A j \in (i + 1)..Len(T) : rRet.record[1][j] = ZeroOf(T[j])

\* the second piece of a cell failed after the first was parsed
C15_Witness ==
    /\ Decoded1 /\ rRet.err.type = "FieldParseError"
    /\ \E i \in 1..Len(T) :
          /\ Eligible(i) /\ ListField(T[i]) /\ InHeader(i) /\ Reached(i, ConsumedRow)
          /\ HasCell(i, ConsumedRow)
          /\ First(FailingPieces(T[i], Split(Cell(i, ConsumedRow), SeparatorOf(T[i])))
                    \cup {9}) = 2
          /\ rRet.err.Field = PieceName(T[i], 1)

\* a field of a type the package does not support: a map, or a list of maps
Unsupported(f) == ~f.ptr /\ (f.kind = "map" \/ (f.kind = "slice" /\ f.elem = "map"))

\* C16: a field of an unsupported type is never coerced: ReadRecord returns
\* for its cell a FieldParseError whose cause names the type that cannot be
\* scanned, and WriteRecord returns for its value a FieldFormatError and
\* makes no row.
C16_Unsupported ==
    /\ Decoded1 =>
          \A i \in 1..Len(T) :
              (Eligible(i) /\ Unsupported(T[i]) /\ InHeader(i) /\ Reached(i, ConsumedRow)) =>
                  /\ rRet.err.type = "FieldParseError"
                  /\ rRet.err.NestedError = ErrCantScan
    /\ (wRet.op = "WriteRecord" /\ Len(wRet.record) = Len(T)) =>
          \A i \in 1..Len(T) :
              (Eligible(i) /\ Unsupported(T[i]) /\ Formats(i, wRet.record)) =>
                  /\ wRet.err.type = "FieldFormatError"
                  /\ wRet.row = Nil

\* the names in a row, and the place (from one) of the last cell with a name
NamesIn(row) == {row[j] : j \in 1..Len(row)}
LastPlace(row, name) ==
    CHOOSE j \in 1..Len(row) : row[j] = name /\ \A k \in (j + 1)..Len(row) : row[k] # name

\* the header was read from the first row and the last call was the first
\* ReadRecord, of the second row
FirstRecord == Decoded1 /\ rRet.from = 1

\* C17: after a ReadHeader without error the header index maps every cell
\* text of the row read to its zero-based position, the last one when the
\* text occurs more than once; ReadRecord then decodes the field of a
\* repeated column from the cell under the last occurrence, and the
\* repetition is no error.
C17_Duplicate ==
    /\ (rRet.op = "ReadHeader" /\ rRet.err = NilError) =>
          /\ ~Header.isNil
          /\ DOMAIN Header.index = NamesIn(file[rRet.from + 1])
          /\ \A name \in NamesIn(file[rRet.from + 1]) :
                Header.index[name] = LastPlace(file[rRet.from + 1], name) - 1
    /\ FirstRecord =>
          \A i \in 1..Len(T) :
              (Eligible(i) /\ T[i].csv \in NamesIn(file[1]) /\ Reached(i, ConsumedRow)) =>
                  IF ParseField(T[i], ConsumedRow[LastPlace(file[1], T[i].csv)]).err = NoErr
                  THEN /\ NoErrorFor(i)
                       /\ rRet.record[1][i]
                             = ParseField(T[i], ConsumedRow[LastPlace(file[1], T[i].csv)]).val
                  ELSE rRet.err
                          = FieldParseError(
                               ParseField(T[i], ConsumedRow[LastPlace(file[1], T[i].csv)]).name,
                               ParseField(T[i], ConsumedRow[LastPlace(file[1], T[i].csv)]).err)

\* a column name twice in the header row, different cells under the two, and
\* the field holds the second
C17_Witness ==
    /\ T = Person
    /\ FirstRecord /\ rRet.err = NilError
    /\ file[1] = <<FString.csv, FString.csv>>
    /\ ConsumedRow = << <<>>, <<"a">> >>
    /\ rRet.record[1][1] = <<"a">>

\* a Flush with rows in the buffer has just returned
Flushed == wRet'.op = "Flush" /\ wRet' # wRet /\ wbuf # <<>>

\* C18: Flush returns nothing.  While no write to the sink has failed,
\* WriteHeader and WriteRecord return nil for a row they made, the row being
\* the last of the buffer, whether the sink will reject it or not.  The
\* first Flush of buffered rows to a sink that rejects them sets the sink's
\* error, which stays; no other step sets an error.  Error returns the
\* error set, nil when there is none.
C18_Deferred ==
    /\ [](wRet.op = "Flush" => (wRet.err = NilError /\ wRet.row = Nil))
    /\ []((wRet.op \in {"WriteHeader", "WriteRecord"} /\ wRet.row # Nil /\ werr = NilError)
             => (/\ wRet.err = NilError
                 /\ wbuf # <<>>
                 /\ wbuf[Len(wbuf)] = wRet.row[1]))
    /\ [][(Flushed /\ sinkFails /\ werr = NilError) => werr' = ErrWrite]_vars
    /\ [][werr' # werr => (Flushed /\ sinkFails /\ werr = NilError)]_vars
    /\ [](wRet.op = "Error" => wRet.err = werr)
    /\ [](~sinkFails => werr = NilError)

\* WriteHeader returned nil with its row in the buffer, the sink rejected the
\* row at the Flush, and Error returned the sink's error
C18_Witness ==
    /\ sinkFails
    /\ Len(todo) = 1 /\ done = 1 /\ todo[1].op = "WriteHeader"
    /\ wbuf = <<HeaderRow(T)>>
    /\ wRet.op = "Error" /\ wRet.err = ErrWrite

\* a ReadRecord of a reader that has a header has just returned
ReadRecordReturns == rRet'.op = "ReadRecord" /\ rRet' # rRet /\ ~Header.isNil

\* the record and the error that decoding a row into a new record gives
FreshlyDecoded(row) == ReadFields(T, Header, row, 1, NewRecord(T))

\* C19: a ReadRecord of a reader that has a header takes exactly the next
\* row from the csv.Reader when there is one, whether it returns a record or
\* a FieldParseError, and what it returns is what decoding that row into a
\* new record gives, whatever the call before returned; so the calls decode
\* the rows one by one in order and no row is read twice.  When no row is
\* left it returns io.EOF itself and no record, and takes nothing.
C19_OneRow ==
    /\ [][pos' >= pos]_vars
    /\ [][ReadRecordReturns =>
             /\ rRet'.from = pos
             /\ IF pos < Len(file)
                THEN /\ pos' = pos + 1
                     /\ rRet'.err # IoEOF
                     /\ rRet'.err # ErrFieldCount =>
                           /\ rRet'.record = FreshlyDecoded(file[pos + 1]).record
                           /\ rRet'.err = FreshlyDecoded(file[pos + 1]).err
                ELSE /\ pos' = pos
                     /\ rRet'.err = IoEOF
                     /\ rRet'.record = Nil]_vars
    /\ []((rRet.op = "ReadRecord" /\ rRet.err.type = "FieldParseError")
             => pos = rRet.from + 1)

\* the row after a row that failed was decoded without error
C19_Witness ==
    /\ ReadARow /\ rRet.from = 2 /\ rRet.err = NilError /\ Len(rRet.record) = 1
    /\ \E i \in 1..Len(T) : Fails(i, file[2])

\* a WriteRecord has just returned
WriteRecordReturns == done' = done + 1 /\ wRet'.op = "WriteRecord"

\* the rows handed to the csv.Writer so far: those flushed, then those buffered
Handed == file \o wbuf

\* C20: a WriteRecord that returns a FieldFormatError hands nothing to the
\* csv.Writer, no cell of the record, and leaves the rows handed before as
\* they were.  A row that WriteRecord hands over has one cell for every
\* eligible field, in the order of declaration; every row handed over is as
\* wide as the row of WriteHeader.
C20_AllOrNothing ==
    /\ [][(WriteRecordReturns /\ wRet'.err.type = "FieldFormatError") =>
             (wRet'.row = Nil /\ wbuf' = wbuf /\ file' = file)]_vars
    /\ [][(WriteRecordReturns /\ wRet'.err = NilError) =>
             (/\ wbuf' = Append(wbuf, wRet'.row[1])
              /\ file' = file
              /\ Len(wRet'.row[1]) = Len(HeaderRow(T))
              /\ \A i \in 1..Len(T) :
                    Eligible(i) =>
                       wRet'.row[1][Column(i)] = FormatField(T[i], wRet'.record[i]).text)]_vars
    /\ [](\A k \in 1..Len(Handed) : Len(Handed[k]) = Len(HeaderRow(T)))

\* the first field of a record was formatted and the second was not: the
\* one row handed over before, of WriteHeader, is all there is
C20_Witness ==
    /\ T = NameStatus
    /\ Len(todo) = 2 /\ done = 2
    /\ todo[1].op = "WriteHeader"
    /\ todo[2].op = "WriteRecord" /\ todo[2].record = << <<"a">>, 100 >>
    /\ wRet.op = "WriteRecord" /\ wRet.err = FieldFormatError(FStatus.csv, ErrUnknownStatus)
    /\ wRet.row = Nil
    /\ Handed = <<HeaderRow(T)>>

\* the last ReadRecord got a row from the csv.Reader without an error
RowDelivered == ReadARow /\ rRet.err # ErrFieldCount

\* C21: for a row the csv.Reader delivers without error, a row with fewer
\* cells than the header row too, ReadRecord returns a record or an error
\* value, and every position of the header index that its loop uses for a
\* column of the record type is smaller than the number of cells of the row.
C21_InRow ==
    RowDelivered =>
        /\ rRet.err # Panic
        /\ \A i \in 1..Len(T) :
              (Eligible(i) /\ InHeader(i) /\ Reached(i, ConsumedRow)) =>
                  Header.index[T[i].csv] < Len(ConsumedRow)

====
